---------------------------- MODULE Spec2Model ----------------------------
(***************************************************************************)
(* Initialization of the newron package (src/newron/__init__.py): the     *)
(* optional flavor imports inside one try/except ImportError block, the   *)
(* logger configuration, the rebinding of the public names from the       *)
(* tracking, models and projects namespaces, and the export list __all__. *)
(* The module body is one sequential process; pc is its position.         *)
(***************************************************************************)
EXTENDS Naturals, Sequences, FiniteSets

\* ------------------------------------------------------------------ bounds
\* Largest number of optional integrations whose load fails in one
\* environment (the environment where all of them are missing is added).
MaxFailing == 2
\* Largest number of times the module body is executed again (reload).
MaxReloads == 1

\* ------------------------------------------------------- tables of the code
\* The import statements of the try block, in order: <<package, name>>.
Probes ==
  << <<"newron", "catboost">>,   <<"newron", "fastai">>,
     <<"newron", "gluon">>,      <<"newron", "h2o">>,
     <<"newron", "keras">>,      <<"newron", "lightgbm">>,
     <<"mlflow", "mleap">>,      <<"newron", "onnx">>,
     <<"mlflow", "pyfunc">>,     <<"newron", "pytorch">>,
     <<"newron", "sklearn">>,    <<"newron", "spacy">>,
     <<"newron", "spark">>,      <<"mlflow", "statsmodels">>,
     <<"newron", "tensorflow">>, <<"mlflow", "xgboost">>,
     <<"mlflow", "shap">>,       <<"mlflow", "pyspark">>,
     <<"mlflow", "paddle">>,     <<"newron", "prophet">>,
     <<"newron", "pmdarima">>,   <<"newron", "diviner">> >>

NumProbes == Len(Probes)

ProbeName(i) == Probes[i][2]

ProbeNames == { ProbeName(i) : i \in 1..NumProbes }

\* The list literal assigned to _model_flavors_supported at the end of the
\* try block (with a name the literal does not have, for comparison).
FlavorLiteralWithPyspark ==
  << "catboost", "fastai", "gluon", "h2o", "keras", "lightgbm", "mleap",
     "onnx", "pyfunc", "pytorch", "sklearn", "spacy", "spark",
     "statsmodels", "tensorflow", "xgboost", "shap", "pyspark", "paddle",
     "prophet", "pmdarima", "diviner" >>

FlavorLiteral ==
  << "catboost", "fastai", "gluon", "h2o", "keras", "lightgbm", "mleap",
     "onnx", "pyfunc", "pytorch", "sklearn", "spacy", "spark",
     "statsmodels", "tensorflow", "xgboost", "shap", "paddle",
     "prophet", "pmdarima", "diviner" >>

\* The assignments  name = namespace.attribute  in source order:
\* <<public name, source namespace, attribute>>.
Rebindings ==
  << <<"get_tracking_uri", "tracking", "get_tracking_uri">>,
     <<"get_registry_uri", "tracking", "get_registry_uri">>,
     <<"create_experiment", "tracking", "create_experiment">>,
     <<"set_experiment", "tracking", "set_experiment">>,
     <<"log_params", "tracking", "log_params">>,
     <<"log_metrics", "tracking", "log_metrics">>,
     <<"set_experiment_tags", "tracking", "set_experiment_tags">>,
     <<"set_experiment_tag", "tracking", "set_experiment_tag">>,
     <<"set_tags", "tracking", "set_tags">>,
     <<"delete_experiment", "tracking", "delete_experiment">>,
     <<"delete_run", "tracking", "delete_run">>,
     <<"register_model", "tracking", "register_model">>,
     <<"autolog", "tracking", "autolog">>,
     <<"evaluate", "models", "evaluate">>,
     <<"last_active_run", "tracking", "last_active_run">>,
     <<"NewronClient", "tracking", "NewronClient">>,
     <<"ActiveRun", "tracking", "ActiveRun">>,
     <<"log_param", "tracking", "log_param">>,
     <<"log_metric", "tracking", "log_metric">>,
     <<"set_tag", "tracking", "set_tag">>,
     <<"delete_tag", "tracking", "delete_tag">>,
     <<"log_artifacts", "tracking", "log_artifacts">>,
     <<"log_artifact", "tracking", "log_artifact">>,
     <<"log_text", "tracking", "log_text">>,
     <<"log_dict", "tracking", "log_dict">>,
     <<"log_image", "tracking", "log_image">>,
     <<"log_figure", "tracking", "log_figure">>,
     <<"active_run", "tracking", "active_run">>,
     <<"get_run", "tracking", "get_run">>,
     <<"start_run", "tracking", "start_run">>,
     <<"end_run", "tracking", "end_run">>,
     <<"search_runs", "tracking", "search_runs">>,
     <<"list_run_infos", "tracking", "list_run_infos">>,
     <<"get_artifact_uri", "tracking", "get_artifact_uri">>,
     <<"set_tracking_uri", "tracking", "set_tracking_uri">>,
     <<"set_registry_uri", "tracking", "set_registry_uri">>,
     <<"get_experiment", "tracking", "get_experiment">>,
     <<"get_experiment_by_name", "tracking", "get_experiment_by_name">>,
     <<"list_experiments", "tracking", "list_experiments">>,
     <<"run", "projects", "run">> >>

NumRebindings == Len(Rebindings)

RebindNames == { Rebindings[i][1] : i \in 1..NumRebindings }

\* The list literal of __all__, before the supported flavors are added.
CoreExports ==
  << "ActiveRun", "log_param", "log_params", "log_metric", "log_metrics",
     "set_experiment_tags", "set_experiment_tag", "set_tag", "set_tags",
     "delete_tag", "log_artifacts", "log_artifact", "log_text", "log_dict",
     "log_figure", "log_image", "active_run", "start_run", "end_run",
     "search_runs", "get_artifact_uri", "get_tracking_uri",
     "set_tracking_uri", "get_experiment", "get_experiment_by_name",
     "list_experiments", "search_experiments", "create_experiment",
     "set_experiment", "delete_experiment", "get_run", "delete_run", "run",
     "register_model", "get_registry_uri", "set_registry_uri",
     "list_run_infos", "autolog", "evaluate", "last_active_run",
     "MlflowClient", "NewronClient" >>

\* Names bound by the imports that precede the try block.
PreambleImports ==
  << <<"mlflow", "projects">>, <<"newron", "tracking">>,
     <<"mlflow", "models">> >>

PreambleNames == { PreambleImports[i][2] : i \in 1..Len(PreambleImports) }

Range(s) == { s[i] : i \in 1..Len(s) }

\* Every name of the package namespace the model follows.
Names == ProbeNames \cup RebindNames \cup Range(CoreExports) \cup PreambleNames

\* ------------------------------------------------------------------ values
Unbound == << >>

ModuleVal(pkg, name) == <<"module", pkg, name>>

AttrVal(src, attr) == <<"attr", src, attr>>

\* Functions and classes are callable, module objects are not.
Callable(v) == v # Unbound /\ v[1] = "attr"

\* ------------------------------------------------------------------- state
VARIABLES
  failing,        \* input: names of the integrations whose import raises
  failKind,       \* input: what they raise: "missing" (ModuleNotFoundError),
                  \*   "import_error" (another ImportError), "error" (not an
                  \*   ImportError)
  firstAbsent,    \* input: index in Rebindings of the first attribute the
                  \*   source namespaces lack, 0 when none is lacking
  pc,             \* position in the module body
  idx,            \* index of the next import of the try block
  ns,             \* the package namespace: name -> value
  _model_flavors_supported,
  __all__,
  attempted,      \* imports of the try block attempted in this execution
  events,         \* steps taken in this execution, in order
  snapshot,       \* namespace, lists after the first complete execution
  runs            \* number of complete executions so far

vars == <<failing, failKind, firstAbsent, pc, idx, ns,
          _model_flavors_supported, __all__, attempted, events, snapshot,
          runs>>

inputs == <<failing, failKind, firstAbsent>>

\* What the import of probe i does in this environment.
Outcome(i) == IF ProbeName(i) \in failing THEN failKind ELSE "ok"

\* except ImportError: ModuleNotFoundError is a subclass of ImportError.
CaughtNothing(kind) == FALSE

CaughtEverything(kind) == TRUE

CaughtByExcept(kind) == kind \in {"missing", "import_error"}

FailingSets ==
  { F \in SUBSET ProbeNames : Cardinality(F) <= MaxFailing } \cup {ProbeNames}

Init ==
  /\ failing \in FailingSets
  /\ failKind \in IF failing = {} \/ failing = ProbeNames
                   THEN {"missing"}
                   ELSE {"missing", "import_error", "error"}
  /\ firstAbsent \in 0..NumRebindings
  /\ pc = "start"
  /\ idx = 0
  /\ ns = [n \in Names |-> Unbound]
  /\ _model_flavors_supported = << >>
  /\ __all__ = << >>
  /\ attempted = << >>
  /\ events = << >>
  /\ snapshot = << >>
  /\ runs = 0

\* ----------------------------------------------------------------- actions
\* Lines 30-49: the unconditional imports and  _model_flavors_supported = [].
Start ==
  /\ pc = "start"
  /\ ns' = [n \in Names |->
              IF \E i \in 1..Len(PreambleImports) : PreambleImports[i][2] = n
              THEN LET i == CHOOSE j \in 1..Len(PreambleImports) :
                               PreambleImports[j][2] = n
                   IN ModuleVal(PreambleImports[i][1], n)
              ELSE ns[n]]
  /\ _model_flavors_supported' = << >>
  /\ idx' = 1
  /\ attempted' = << >>
  /\ events' = << >>
  /\ pc' = "probe"
  /\ UNCHANGED <<inputs, __all__, snapshot, runs>>

\* One  from <package> import <name>  of the try block that succeeds.
ProbeOk ==
  /\ pc = "probe"
  /\ idx <= NumProbes
  /\ Outcome(idx) = "ok"
  /\ ns' = [ns EXCEPT ![ProbeName(idx)] = ModuleVal(Probes[idx][1], ProbeName(idx))]
  /\ attempted' = Append(attempted, ProbeName(idx))
  /\ idx' = idx + 1
  /\ UNCHANGED <<inputs, pc, _model_flavors_supported, __all__, events,
                 snapshot, runs>>

\* An import of the try block raises an ImportError: the except clause
\* takes over, the rest of the try block is skipped.
ProbeCaught ==
  /\ pc = "probe"
  /\ idx <= NumProbes
  /\ Outcome(idx) # "ok"
  /\ CaughtByExcept(Outcome(idx))
  /\ attempted' = Append(attempted, ProbeName(idx))
  /\ events' = Append(events, "detected")
  /\ pc' = "loggers"
  /\ UNCHANGED <<inputs, idx, ns, _model_flavors_supported, __all__,
                 snapshot, runs>>

\* An import of the try block raises something else: it leaves the module.
ProbeRaises ==
  /\ pc = "probe"
  /\ idx <= NumProbes
  /\ Outcome(idx) # "ok"
  /\ ~CaughtByExcept(Outcome(idx))
  /\ attempted' = Append(attempted, ProbeName(idx))
  /\ pc' = "aborted"
  /\ UNCHANGED <<inputs, idx, ns, _model_flavors_supported, __all__, events,
                 snapshot, runs>>

\* Lines 75-97: every import succeeded, the literal is assigned.
AssignSupported ==
  /\ pc = "probe"
  /\ idx = NumProbes + 1
  /\ _model_flavors_supported' = FlavorLiteral
  /\ events' = Append(events, "detected")
  /\ pc' = "loggers"
  /\ UNCHANGED <<inputs, idx, ns, __all__, attempted, snapshot, runs>>

\* Line 104.
ConfigureLoggers ==
  /\ pc = "loggers"
  /\ events' = Append(events, "loggers")
  /\ pc' = "rebind"
  /\ UNCHANGED <<inputs, idx, ns, _model_flavors_supported, __all__,
                 attempted, snapshot, runs>>

\* Number of assignments of lines 130-170 that execute: all of them, or
\* those before the first one whose attribute lookup raises AttributeError.
RebindCount == IF firstAbsent = 0 THEN NumRebindings ELSE firstAbsent - 1

\* The namespace after the first k assignments.
Rebound(old, k) ==
  [n \in Names |->
     IF \E i \in 1..k : Rebindings[i][1] = n
     THEN LET i == CHOOSE j \in 1..k : Rebindings[j][1] = n
          IN AttrVal(Rebindings[i][2], Rebindings[i][3])
     ELSE old[n]]

\* Lines 130-170.
Rebind ==
  /\ pc = "rebind"
  /\ ns' = Rebound(ns, RebindCount)
  /\ events' = Append(events, "rebind")
  /\ pc' = IF firstAbsent = 0 THEN "export" ELSE "aborted"
  /\ UNCHANGED <<inputs, idx, _model_flavors_supported, __all__, attempted,
                 snapshot, runs>>

\* Lines 173-216:  __all__ = [ ... ] + _model_flavors_supported.
ExportListExtend(prev, supported) == prev \o supported

ExportListCoreOnly(prev, supported) == CoreExports

ExportList(prev, supported) == CoreExports \o supported

BuildAll ==
  /\ pc = "export"
  /\ __all__' = ExportList(__all__, _model_flavors_supported)
  /\ events' = Append(events, "export")
  /\ pc' = "done"
  /\ runs' = runs + 1
  /\ snapshot' = IF runs = 0
                 THEN <<ns, _model_flavors_supported, __all__'>>
                 ELSE snapshot
  /\ UNCHANGED <<inputs, idx, ns, _model_flavors_supported, attempted>>

\* The module body is executed again in the same namespace
\* (importlib.reload); the modules already loaded stay loaded.
Reload ==
  /\ pc = "done"
  /\ runs <= MaxReloads
  /\ pc' = "start"
  /\ UNCHANGED <<inputs, idx, ns, _model_flavors_supported, __all__,
                 attempted, events, snapshot, runs>>

Next ==
  \/ Start
  \/ ProbeOk
  \/ ProbeCaught
  \/ ProbeRaises
  \/ AssignSupported
  \/ ConfigureLoggers
  \/ Rebind
  \/ BuildAll
  \/ Reload

Spec == Init /\ [][Next]_vars

\* ------------------------------------------------------------ properties
ProbeNameSeq == [i \in 1..NumProbes |-> ProbeName(i)]

IsInstalled(name) == name \notin failing

\* The names of the integrations whose import succeeds, in declaration order.
InstalledInOrder == SelectSeq(ProbeNameSeq, IsInstalled)

Last(s) == s[Len(s)]

\* The import at idx is the one that raised in this execution.
ProbeFailed ==
  /\ attempted # << >>
  /\ idx \in 1..NumProbes
  /\ Last(attempted) = ProbeName(idx)
  /\ Outcome(idx) # "ok"

NoDuplicates(s) == \A i, j \in 1..Len(s) : s[i] = s[j] => i = j

IsPrefix(s, t) == Len(s) <= Len(t) /\ \A i \in 1..Len(s) : s[i] = t[i]

StepOrder == <<"detected", "loggers", "rebind", "export">>

\* The bindings of the rebound names when nothing is missing.
FullCoreBinding(n) == Rebound([m \in Names |-> Unbound], NumRebindings)[n]

\* C1: when the failing integrations fail with a missing dependency, the
\* supported-flavor list after initialization is exactly the names of the
\* integrations whose dependencies are present, in declaration order.
C1_SupportedEqualsInstalled ==
  (pc = "done" /\ failKind = "missing")
    => _model_flavors_supported = InstalledInOrder

\* C2: after an integration fails with a missing dependency, every
\* integration declared after it is still attempted, and each of those that
\* loads is bound in the namespace and is in the supported list.
C2_ContinuesAfterMissing ==
  (pc = "done" /\ failKind = "missing")
    => \A i, j \in 1..NumProbes :
         (i < j /\ Outcome(i) = "missing")
           => /\ ProbeName(j) \in Range(attempted)
              /\ Outcome(j) = "ok"
                   => /\ ns[ProbeName(j)] # Unbound
                      /\ ProbeName(j) \in Range(_model_flavors_supported)

\* C3: when integrations fail only with a missing dependency (and the core
\* namespaces are complete), initialization never aborts; once it is
\* complete the supported list is empty if all integrations are missing, and
\* every rebound core name is bound as it is when all are present.
C3_CoreSurvivesMissing ==
  (failKind = "missing" /\ firstAbsent = 0)
    => /\ pc # "aborted"
       /\ pc = "done"
            => /\ failing = ProbeNames => _model_flavors_supported = << >>
               /\ \A n \in RebindNames : ns[n] = FullCoreBinding(n)

C3_Witness ==
  /\ pc = "done"
  /\ failing = ProbeNames
  /\ _model_flavors_supported = << >>
  /\ ns["start_run"] = AttrVal("tracking", "start_run")
  /\ ns["run"] = AttrVal("projects", "run")

\* C4: after a successful import every name of __all__ is bound in the
\* package namespace and is callable.
C4_ExportsBoundAndCallable ==
  pc = "done" => \A n \in Range(__all__) : Callable(ns[n])

\* C5: executing the initialization again with the same installed
\* integrations leaves the supported list, the export list and every bound
\* name as they were after the first initialization.
C5_ReimportIdempotent ==
  (pc = "done" /\ runs >= 2)
    => <<ns, _model_flavors_supported, __all__>> = snapshot

C5_Witness ==
  /\ pc = "done"
  /\ runs = 2
  /\ _model_flavors_supported = FlavorLiteral
  /\ snapshot[3] = __all__

\* C6: after initialization an integration that failed with a missing
\* dependency is unbound and not in the supported list, and no integration
\* is bound in the namespace while absent from the supported list.
C6_BindingAgreesWithList ==
  pc = "done"
    => \A i \in 1..NumProbes :
         /\ Outcome(i) = "missing"
              => /\ ns[ProbeName(i)] = Unbound
                 /\ ProbeName(i) \notin Range(_model_flavors_supported)
         /\ ns[ProbeName(i)] # Unbound
              => ProbeName(i) \in Range(_model_flavors_supported)

\* C7: initialization never completes while a name of the export allow-list
\* has no implementation bound to it.
C7_UnresolvedExportIsFatal ==
  (\E n \in Range(CoreExports) : ns[n] = Unbound) => pc # "done"

\* C8 as stated: an integration failing with anything but a missing
\* dependency aborts initialization, with no public name rebound and no
\* export list built.
C8_OnlyMissingAbsorbed ==
  (ProbeFailed /\ Outcome(idx) # "missing")
    => /\ pc = "aborted"
       /\ \A n \in RebindNames : ns[n] = Unbound
       /\ __all__ = << >>

\* C8 amended: the detector absorbs exactly the ImportErrors (a missing
\* dependency or any other ImportError); a failure that is not an
\* ImportError aborts initialization, with no public name rebound and no
\* export list built.
C8_OnlyImportErrorAbsorbed ==
  ProbeFailed
    => IF Outcome(idx) \in {"missing", "import_error"}
       THEN "detected" \in Range(events)
       ELSE /\ pc = "aborted"
            /\ events = << >>
            /\ \A n \in RebindNames : ns[n] = Unbound
            /\ __all__ = << >>

C8_Witness ==
  /\ ProbeFailed
  /\ Outcome(idx) = "error"
  /\ pc = "aborted"
  /\ Len(attempted) > 1

\* C9: in every execution the detector finishes before the loggers are
\* configured, before any public name is rebound and before the export list
\* is computed; the rebinder runs once; the supported list does not change
\* once this execution has gone past the detector, so the export list is
\* the core names followed by the final supported list.
C9_StepsState ==
  /\ IsPrefix(events, StepOrder)
  /\ pc = "done" => events = StepOrder
  /\ "export" \in Range(events)
       => __all__ = CoreExports \o _model_flavors_supported

C9_StepsAction ==
  /\ _model_flavors_supported' # _model_flavors_supported
       => events' \in {<< >>, <<"detected">>}
  /\ (\E n \in RebindNames : ns'[n] # ns[n])
       => (events = <<"detected", "loggers">> /\ Last(events') = "rebind")
  /\ __all__' # __all__
       => (events = <<"detected", "loggers", "rebind">> /\ events' = StepOrder)

C9_StepOrder == []C9_StepsState /\ [][C9_StepsAction]_vars

C9_Witness ==
  /\ pc = "done"
  /\ events = StepOrder
  /\ _model_flavors_supported = FlavorLiteral
  /\ Len(__all__) = Len(CoreExports) + Len(FlavorLiteral)

\* C10: after initialization the supported list is empty or the full
\* 21-name sequence without duplicates; it is the full sequence exactly
\* when all 22 imports succeeded, "pyspark" included though never listed;
\* the first missing dependency ends the probing with the list empty.
C10_AllOrNothing ==
  pc = "done"
    => /\ _model_flavors_supported \in {<< >>, FlavorLiteral}
       /\ NoDuplicates(_model_flavors_supported)
       /\ Len(_model_flavors_supported) \in {0, 21}
       /\ "pyspark" \notin Range(_model_flavors_supported)
       /\ _model_flavors_supported # << >>
            <=> (attempted = ProbeNameSeq
                 /\ \A i \in 1..NumProbes : Outcome(i) = "ok")
       /\ \A i \in 1..NumProbes :
            (Outcome(i) # "ok" /\ \A j \in 1..(i - 1) : Outcome(j) = "ok")
              => /\ attempted = SubSeq(ProbeNameSeq, 1, i)
                 /\ _model_flavors_supported = << >>

C10_Witness ==
  /\ pc = "done"
  /\ _model_flavors_supported = << >>
  /\ "pyspark" \in failing
  /\ Cardinality(failing) = 1
  /\ Last(attempted) = "pyspark"
  /\ ns["shap"] # Unbound

=============================================================================
